---- MODULE Spec2Model ----
(***************************************************************************)
(* A model of the littlefoot popover engine:                               *)
(*   - the footnote lifecycle controller   (src/src/dom/footnote.ts)       *)
(*   - the positioning algorithm           (src/src/dom/layout.ts)         *)
(*   - the event coordination layer        (src/unnamed/part_000)          *)
(*   - the scroll boundary detector        (src/src/dom/scroll.ts)         *)
(* DOM nodes are modelled by the attributes, classes and inline styles the *)
(* code reads and writes.  An inline style is <<>> while unset and <<n>>   *)
(* when set to n pixels.                                                   *)
(***************************************************************************)
EXTENDS Integers, Sequences, FiniteSets, TLC

VARIABLES
    button,      \* [ariaExpanded, classes]                  the button node
    popover,     \* [classes, maxWidth, transformOrigin, left, tooltipLeft]
    content,     \* [maxHeight, tabindex]                    the content node
    wrapper,     \* [maxWidth]                               the wrapper node
    host,        \* [children, inDocument]                   the host node
    maxHeight,   \* footnoteActions' closure variable maxHeight
    position,    \* footnoteActions' closure variable position
    geom,        \* the layout the last call read, <<>> if it read none
    repositioned,\* the last call's repositionPopover(current) = [next, room]
    observed,    \* what the callback passed to the last call saw, or <<>>
    lastOp,      \* the last operation called on the footnote
    cycle,       \* how far a dismiss(), remove(), activate() sequence has come
    history,     \* which operations have been called so far, see HistoryAfter
    status,      \* per addListeners call: "none", "live" or "aborted"
    throttles,   \* per throttled function: [wait, timer]
    bursts,      \* per throttled function: the burst of calls under way
    calls,       \* the handler and registry calls the last step made
    dispatched,  \* the last event dispatched and whether it was prevented
    scrollBox    \* the content's [scrollTop, scrollHeight, clientHeight]

fvars == <<button, popover, content, wrapper, host, maxHeight, position, geom,
           repositioned, observed, lastOp, cycle, history>>

evars == <<status, throttles, bursts, calls, dispatched, scrollBox>>

vars == <<fvars, evars>>

----------------------------------------------------------------------------
(* src/src/dom/footnote.ts: class names and class-list helpers *)

CLASS_ACTIVE == "is-active"
CLASS_CHANGING == "is-changing"
CLASS_SCROLLABLE == "is-scrollable"
CLASS_FULLY_SCROLLED == "is-fully-scrolled"

addClass(classes, className) == classes \cup {className}

removeClass(classes, className) == classes \ {className}

hasClass(classes, className) == className \in classes

Unset == <<>>

Px(n) == <<n>>

----------------------------------------------------------------------------
(* The DOM tree around one footnote: the host's children in document order *)

IndexOf(seq, node) == CHOOSE i \in 1..Len(seq) : seq[i] = node

Without(seq, node) == SelectSeq(seq, LAMBDA n : n # node)

\* node.remove()
RemoveNode(children, node) == Without(children, node)

\* ref.insertAdjacentElement('afterend', node): node leaves its old place and
\* becomes the sibling right after ref
InsertAfterEnd(children, ref, node) ==
    LET rest == Without(children, node)
        i == IndexOf(rest, ref)
    IN  SubSeq(rest, 1, i) \o <<node>> \o SubSeq(rest, i + 1, Len(rest))

InSeq(seq, node) == \E i \in 1..Len(seq) : seq[i] = node

\* a variant that only looks for the popover under its host, whether or not
\* the host is in the document
isMountedInHost == InSeq(host.children, "popover")

\* document.body.contains(popover)
isMounted == host.inDocument /\ InSeq(host.children, "popover")

\* button.nextElementSibling
NextSibling(children, node) ==
    LET i == IndexOf(children, node)
    IN  IF i < Len(children) THEN children[i + 1] ELSE "null"

----------------------------------------------------------------------------
(* The layout the browser reports: every length is in pixels.  Halved      *)
(* lengths are even, so the integer arithmetic below is the code's exact   *)
(* arithmetic.                                                             *)

VerticalLayouts ==
    [buttonTop : {10, 30, 70, 90}, buttonOffsetHeight : {20},
     innerHeight : {120}, marginTop : {5}, popoverOffsetHeight : {40}]

HorizontalLayouts ==
    [buttonLeft : {40, 90}, buttonOffsetWidth : {20}, buttonMarginLeft : {0},
     innerWidth : {200}, contentOffsetWidth : {100}, bodyClientWidth : {180}]

OverflowLayouts ==
    [contentScrollHeight : {30, 200}, renderedHeight : {60},
     cssMaxHeight : {70}]

Merge(f, g) == [k \in DOMAIN f \cup DOMAIN g |-> IF k \in DOMAIN f THEN f[k] ELSE g[k]]

Layouts ==
    {Merge(v, Merge(h, o)) :
        v \in VerticalLayouts, h \in HorizontalLayouts, o \in OverflowLayouts}

Min(a, b) == IF a <= b THEN a ELSE b

\* Math.round(pixels(getStyle(...))) of an element outside the document: the
\* computed style is empty there and the result is not a number
NaN == -1

----------------------------------------------------------------------------
(* src/src/dom/layout.ts *)

\* the left edge measure of getLeftRelative, before the division
LeftOf(g) == g.buttonLeft + (g.buttonOffsetWidth - g.buttonMarginLeft) \div 2

\* getLeftRelative(button) * 100
getLeftRelative(g) == (LeftOf(g) * 100) \div g.innerWidth

getLeftInPixels(g) ==
    (0 - ((LeftOf(g) * g.contentOffsetWidth) \div g.innerWidth))
        + g.buttonMarginLeft + g.buttonOffsetWidth \div 2

\* the computed max-height of the content: its inline style when set,
\* the stylesheet's value otherwise, nothing outside the document
getMaxHeight(c, g, inDocument) ==
    IF ~inDocument THEN NaN
    ELSE IF c.maxHeight # Unset THEN c.maxHeight[1] ELSE g.cssMaxHeight

\* a variant whose tie between the two rooms goes to 'above'
getFootnotePositionStrict(g) ==
    LET marginSize == g.marginTop
        popoverHeight == 2 * marginSize + g.popoverOffsetHeight
        roomAbove == g.buttonTop + g.buttonOffsetHeight \div 2
        roomBelow == g.innerHeight - roomAbove
    IN  IF roomBelow >= popoverHeight \/ roomBelow > roomAbove
        THEN <<"below", roomBelow - marginSize - 15>>
        ELSE <<"above", roomAbove - marginSize - 15>>

getFootnotePosition(g) ==
    LET marginSize == g.marginTop
        popoverHeight == 2 * marginSize + g.popoverOffsetHeight
        roomAbove == g.buttonTop + g.buttonOffsetHeight \div 2
        roomBelow == g.innerHeight - roomAbove
    IN  IF roomBelow >= popoverHeight \/ roomBelow >= roomAbove
        THEN <<"below", roomBelow - marginSize - 15>>
        ELSE <<"above", roomAbove - marginSize - 15>>

PlacementClass(pos) == IF pos = "above" THEN "is-above" ELSE "is-below"

\* a variant that swaps the classes and rewrites transform-origin on every
\* call, whether or not the decision changed
repositionPopoverAlways(pop, g, current) ==
    LET fp == getFootnotePosition(g)
        next == fp[1]
    IN  [popover |->
            [pop EXCEPT
                !.classes = addClass(removeClass(@, PlacementClass(current)),
                                     PlacementClass(next)),
                !.transformOrigin =
                    <<getLeftRelative(g), IF next = "above" THEN 100 ELSE 0>>],
         ret |-> fp]

\* the popover after repositionPopover(popover, button, current), and the
\* pair it returns
repositionPopover(pop, g, current) ==
    LET fp == getFootnotePosition(g)
        next == fp[1]
    IN  [popover |->
            IF current # next
            THEN [pop EXCEPT
                    !.classes = addClass(removeClass(@, PlacementClass(current)),
                                         PlacementClass(next)),
                    !.transformOrigin =
                        <<getLeftRelative(g), IF next = "above" THEN 100 ELSE 0>>]
            ELSE pop,
         ret |-> fp]

\* repositionTooltip: the popover template carries a tooltip element
repositionTooltip(pop, g) == [pop EXCEPT !.tooltipLeft = <<getLeftRelative(g)>>]

\* element.style.maxHeight = n + 'px': a negative length is no valid
\* max-height and the assignment is dropped
SetMaxHeight(old, n) == IF n >= 0 THEN Px(n) ELSE old

----------------------------------------------------------------------------
(* src/src/dom/footnote.ts: footnoteActions *)

isActive == hasClass(button.classes, CLASS_ACTIVE)

isReady == ~hasClass(button.classes, CLASS_CHANGING)

\* the calls of a dismiss(), remove(), activate() sequence seen so far
CycleAfter(c, op) ==
    CASE op = "dismiss" -> "dismissed"
      [] op = "remove" /\ c = "dismissed" -> "removed"
      [] op = "activate" /\ c = "removed" -> "reactivated"
      [] OTHER -> "none"

\* the calls made so far: activated, activate() has been called and remove()
\* has not been since; destroyed, destroy() has been called; settled, the
\* last of activate(), dismiss(), ready(), remove() called, if any, was
\* ready() or remove()
NoHistory == [activated |-> FALSE, destroyed |-> FALSE, settled |-> TRUE]

HistoryAfter(h, op) ==
    CASE op = "activate" -> [h EXCEPT !.activated = TRUE, !.settled = FALSE]
      [] op = "dismiss" -> [h EXCEPT !.settled = FALSE]
      [] op = "ready" -> [h EXCEPT !.settled = TRUE]
      [] op = "remove" -> [h EXCEPT !.activated = FALSE, !.settled = TRUE]
      [] op = "destroy" -> [h EXCEPT !.destroyed = TRUE]
      [] OTHER -> h

Called(op) ==
    /\ lastOp' = op
    /\ cycle' = CycleAfter(cycle, op)
    /\ history' = HistoryAfter(history, op)

\* a call that reads no layout, returns nothing and is passed no callback
Quiet == geom' = <<>> /\ repositioned' = <<>> /\ observed' = <<>>

\* what an onActivate/onDismiss callback can see of the footnote it is given
Seen(b, p, h) ==
    [mounted |-> h.inDocument /\ InSeq(h.children, "popover"),
     afterButton |-> NextSibling(h.children, "button") = "popover",
     expanded |-> b.ariaExpanded,
     active |-> hasClass(b.classes, CLASS_ACTIVE),
     ready |-> ~hasClass(b.classes, CLASS_CHANGING),
     popoverActive |-> hasClass(p.classes, CLASS_ACTIVE)]

Callback(cb, b, p, h) == IF cb THEN <<Seen(b, p, h)>> ELSE <<>>

ActivatedButton(b) ==
    [b EXCEPT !.ariaExpanded = "true",
              !.classes = addClass(addClass(@, CLASS_CHANGING), CLASS_ACTIVE)]

\* a variant that appends the popover to the host (insertAdjacentElement
\* 'beforeend' on the host) instead of placing it after the button
ActivatedChildrenAppended(children) == Without(children, "popover") \o <<"popover">>

ActivatedChildren(children) == InsertAfterEnd(children, "button", "popover")

\* what activate() reads of the layout
ActivateLayouts ==
    {Merge(h, o) : h \in HorizontalLayouts, o \in OverflowLayouts}

\* a variant of activate() that invokes the callback first
ActivateCallbackFirst(cb, g) ==
    /\ button' = ActivatedButton(button)
    /\ host' = [host EXCEPT !.children = ActivatedChildren(@)]
    /\ popover' = [popover EXCEPT !.maxWidth = Px(g.bodyClientWidth)]
    /\ maxHeight' = getMaxHeight(content, g, host.inDocument)
    /\ observed' = Callback(cb, button, popover, host)
    /\ geom' = <<g>>
    /\ repositioned' = <<>>
    /\ Called("activate")
    /\ UNCHANGED <<content, wrapper, position>>

Activate(cb, g) ==
    /\ button' = ActivatedButton(button)
    /\ host' = [host EXCEPT !.children = ActivatedChildren(@)]
    /\ popover' = [popover EXCEPT !.maxWidth = Px(g.bodyClientWidth)]
    /\ maxHeight' = getMaxHeight(content, g, host.inDocument)
    /\ observed' = Callback(cb, button', popover', host')
    /\ geom' = <<g>>
    /\ repositioned' = <<>>
    /\ Called("activate")
    /\ UNCHANGED <<content, wrapper, position>>

\* a variant of dismiss() that leaves aria-expanded as it was
DismissedButtonStillExpanded(b) ==
    [b EXCEPT !.classes = removeClass(addClass(@, CLASS_CHANGING), CLASS_ACTIVE)]

DismissedButton(b) ==
    [b EXCEPT !.ariaExpanded = "false",
              !.classes = removeClass(addClass(@, CLASS_CHANGING), CLASS_ACTIVE)]

Dismiss(cb) ==
    /\ button' = DismissedButton(button)
    /\ popover' = [popover EXCEPT !.classes = removeClass(@, CLASS_ACTIVE)]
    /\ observed' = Callback(cb, button', popover', host)
    /\ geom' = <<>>
    /\ repositioned' = <<>>
    /\ Called("dismiss")
    /\ UNCHANGED <<content, wrapper, host, maxHeight, position>>

\* isActive() and isReady() read the button's classes and write nothing
IsActiveCall ==
    /\ Called("isActive")
    /\ Quiet
    /\ UNCHANGED <<button, popover, content, wrapper, host, maxHeight, position>>

IsReadyCall ==
    /\ Called("isReady")
    /\ Quiet
    /\ UNCHANGED <<button, popover, content, wrapper, host, maxHeight, position>>

ReadyButton(b) == [b EXCEPT !.classes = removeClass(@, CLASS_CHANGING)]

Ready ==
    /\ popover' = [popover EXCEPT !.classes = addClass(@, CLASS_ACTIVE)]
    /\ button' = ReadyButton(button)
    /\ Called("ready")
    /\ Quiet
    /\ UNCHANGED <<content, wrapper, host, maxHeight, position>>

RemovedChildren(children) == RemoveNode(children, "popover")

\* a variant of remove() that also clears the button's active marker
RemovedButtonInactive(b) ==
    [b EXCEPT !.classes = removeClass(removeClass(@, CLASS_CHANGING), CLASS_ACTIVE)]

\* a variant of remove() that leaves the button's classes alone
RemovedButtonStillChanging(b) == b

RemovedButton(b) == [b EXCEPT !.classes = removeClass(@, CLASS_CHANGING)]

Remove ==
    /\ host' = [host EXCEPT !.children = RemovedChildren(@)]
    /\ button' = RemovedButton(button)
    /\ Called("remove")
    /\ Quiet
    /\ UNCHANGED <<popover, content, wrapper, maxHeight, position>>

\* lines 89-95 of reposition: the scroll affordance of the clipped content
Overflows(g) == g.renderedHeight < g.contentScrollHeight

Reposition(g) ==
    /\ geom' = <<g>>
    /\ observed' = <<>>
    /\ Called("reposition")
    /\ IF isMounted
       THEN LET r == repositionPopover(popover, g, position)
                height == r.ret[2]
            IN  /\ position' = r.ret[1]
                /\ repositioned' = <<[current |-> position, next |-> r.ret[1],
                                       room |-> height]>>
                /\ content' =
                     [maxHeight |-> SetMaxHeight(content.maxHeight,
                                                 Min(maxHeight, height)),
                      tabindex |-> IF Overflows(g) THEN "0" ELSE "absent"]
                /\ popover' =
                     [r.popover EXCEPT !.classes =
                        IF Overflows(g) THEN addClass(@, CLASS_SCROLLABLE)
                        ELSE removeClass(@, CLASS_SCROLLABLE)]
       ELSE /\ repositioned' = <<>>
            /\ UNCHANGED <<position, content, popover>>
    /\ UNCHANGED <<button, wrapper, host, maxHeight>>

\* the layout at a resize() call
ResizeLayouts ==
    {Merge(h, o) : h \in HorizontalLayouts, o \in OverflowLayouts}

Resize(g) ==
    /\ geom' = <<g>>
    /\ repositioned' = <<>>
    /\ observed' = <<>>
    /\ Called("resize")
    /\ IF isMounted
       THEN /\ popover' = repositionTooltip(
                            [popover EXCEPT !.left = Px(getLeftInPixels(g))], g)
            /\ wrapper' = [wrapper EXCEPT !.maxWidth = Px(g.contentOffsetWidth)]
       ELSE UNCHANGED <<popover, wrapper>>
    /\ UNCHANGED <<button, content, host, maxHeight, position>>

\* a variant of destroy() that removes the popover instead of the host
DestroyPopoverOnly ==
    /\ host' = [host EXCEPT !.children = RemoveNode(@, "popover")]
    /\ Called("destroy")
    /\ Quiet
    /\ UNCHANGED <<button, popover, content, wrapper, maxHeight, position>>

Destroy ==
    /\ host' = [host EXCEPT !.inDocument = FALSE]
    /\ Called("destroy")
    /\ Quiet
    /\ UNCHANGED <<button, popover, content, wrapper, maxHeight, position>>

----------------------------------------------------------------------------
(* src/src/dom/document.ts: createElements hands footnoteActions a host in *)
(* the document whose first element child is the button (aria-expanded     *)
(* 'false'), and a popover outside the document.  A button template may    *)
(* render a further element after the button.                              *)

HostChildren == {<<"button">>, <<"button", "sibling">>}

InitFootnote ==
    /\ button = [ariaExpanded |-> "false", classes |-> {}]
    /\ popover = [classes |-> {}, maxWidth |-> Unset, transformOrigin |-> Unset,
                  left |-> Unset, tooltipLeft |-> Unset]
    /\ content = [maxHeight |-> Unset, tabindex |-> "absent"]
    /\ wrapper = [maxWidth |-> Unset]
    /\ host \in [children : HostChildren, inDocument : {TRUE}]
    /\ maxHeight = 0
    /\ position = "above"
    /\ geom = <<>>
    /\ repositioned = <<>>
    /\ observed = <<>>
    /\ lastOp = "none"
    /\ cycle = "none"
    /\ history = NoHistory

FootnoteCall ==
    \/ \E cb \in BOOLEAN, g \in ActivateLayouts : Activate(cb, g)
    \/ \E cb \in BOOLEAN : Dismiss(cb)
    \/ IsActiveCall
    \/ IsReadyCall
    \/ Ready
    \/ Remove
    \/ \E g \in Layouts : Reposition(g)
    \/ \E g \in ResizeLayouts : Resize(g)
    \/ Destroy

----------------------------------------------------------------------------
(* Events.  An event carries its type, the footnote button and the popover *)
(* its target lies in ("" for none), the key data of a key event, the      *)
(* deltaY of a wheel event, and a detail that tells two event objects of   *)
(* one type apart.                                                         *)

Ids == {"1", "2"}

Event(type, inButton, inPopover, key, keyCode, detail, deltaY) ==
    [type |-> type, button |-> inButton, popover |-> inPopover, key |-> key,
     keyCode |-> keyCode, detail |-> detail, deltaY |-> deltaY]

\* where a pointer event's target can lie: in the button of a footnote, in
\* the popover of a footnote, or in neither
Targets ==
    {<<b, "">> : b \in Ids} \cup {<<"", p>> : p \in Ids} \cup {<<"", "">>}

PointerEvents ==
    {Event(t, x[1], x[2], "", 0, "", 0) :
        t \in {"touchend", "click", "mouseover", "mouseout"}, x \in Targets}

KeyEvents ==
    {Event("keyup", "", "", k[1], k[2], "", 0) :
        k \in {<<"Escape", 27>>, <<"Esc", 27>>, <<"Unidentified", 27>>,
               <<"Escape", 0>>, <<"Enter", 13>>}}

Details == {"a", "b"}

FrameEvents ==
    {Event(t, "", "", "", 0, d, 0) :
        t \in {"gestureend", "scroll", "resize"}, d \in Details}

WheelEvents == {Event("wheel", "", "", "", 0, "", d) : d \in {-50, 0, 50, 150}}

----------------------------------------------------------------------------
(* The throttle primitive, throttle(fn, delay), of the event layer and of  *)
(* the scroll handler: a call outside the window of a previous invocation  *)
(* invokes fn at once and opens a window of delay milliseconds; a call     *)
(* inside a window replaces the pending call, which a timer invokes with   *)
(* the latest arguments when the window ends, opening the next window.     *)
(* wait is the time left in the window.  Time passes in steps of TickMs.   *)

Delay == 16

TickMs == 8

Idle == [wait |-> 0, timer |-> <<>>]

\* throttledFn(e): whether fn(e) runs now, and the throttle afterwards
ThrottleCall(t, e) ==
    IF t.wait = 0
    THEN [immediate |-> TRUE, throttle |-> [wait |-> Delay, timer |-> <<>>]]
    ELSE [immediate |-> FALSE, throttle |-> [t EXCEPT !.timer = <<e>>]]

\* the pending call's timer has run out
Due(t) == t.timer # <<>> /\ t.wait = 0

\* the timer's callback: fn(latest arguments) runs and a window opens
ThrottleFired(t) == [wait |-> Delay, timer |-> <<>>]

ThrottleTick(t) == [t EXCEPT !.wait = IF @ > TickMs THEN @ - TickMs ELSE 0]

----------------------------------------------------------------------------
(* What is seen of a throttled function from outside: the burst of calls   *)
(* that began when the function had not run for Delay milliseconds.        *)

NoBurst ==
    [open |-> FALSE, quiet |-> Delay, age |-> 0, n |-> 0, imm |-> 0, trail |-> 0,
     last |-> <<>>, trailArg |-> <<>>]

\* an event reaches the throttled function, which runs k times at once
BurstArrive(b, e, k) ==
    LET quiet == IF k > 0 THEN 0 ELSE b.quiet
    IN  IF b.quiet >= Delay
        THEN [open |-> TRUE, quiet |-> quiet, age |-> 0, n |-> 1, imm |-> k,
              trail |-> 0, last |-> <<e>>, trailArg |-> <<>>]
        ELSE IF b.open /\ b.trail = 0 /\ b.age < Delay
        THEN [b EXCEPT !.quiet = quiet, !.n = Min(2, @ + 1),
                       !.imm = Min(2, @ + k), !.last = <<e>>]
        ELSE [NoBurst EXCEPT !.quiet = quiet]

\* the function runs from a timer with argument e
BurstFired(b, e) ==
    IF b.open
    THEN [b EXCEPT !.quiet = 0, !.trail = Min(2, @ + 1), !.trailArg = <<e>>]
    ELSE [b EXCEPT !.quiet = 0]

\* time passes; a burst is over once its window has passed, the function
\* has been quiet for Delay milliseconds and no trailing call is to come
BurstTick(b) ==
    LET quiet == Min(Delay, b.quiet + TickMs)
        age == Min(Delay, b.age + TickMs)
    IN  IF ~b.open THEN [b EXCEPT !.quiet = quiet]
        ELSE IF quiet >= Delay /\ age >= Delay /\ (b.n = 1 \/ b.trail >= 1)
        THEN NoBurst
        ELSE [b EXCEPT !.quiet = quiet, !.age = age]

----------------------------------------------------------------------------
(* src/unnamed/part_000: the event coordination layer *)

Groups == {"g1", "g2"}

GroupOrder == <<"g1", "g2">>

\* the throttled functions: two per addListeners call (lines 65-66) and the
\* wheel handler of the footnote's content (scroll.ts, line 29)
Handlers ==
    {<<g, f>> : g \in Groups, f \in {"reposition", "resize"}}
        \cup {<<"content", "wheel">>}

\* closestTarget(event, '[data-footnote-id]'): the button or the popover
closestFootnote(e) == IF e.button # "" THEN e.button ELSE e.popover

Invoke(action, arg) == [action |-> action, arg |-> arg]

\* a variant that toggles without suppressing the default action
toggleOnTouchDefault(e) ==
    IF e.button # ""
    THEN [calls |-> <<Invoke("toggle", e.button)>>, prevented |-> FALSE]
    ELSE IF e.popover = ""
    THEN [calls |-> <<Invoke("touchOutside", "")>>, prevented |-> FALSE]
    ELSE [calls |-> <<>>, prevented |-> FALSE]

\* a variant that signals a touch outside for every target outside a button
toggleOnTouchAnywhere(e) ==
    IF e.button # ""
    THEN [calls |-> <<Invoke("toggle", e.button)>>, prevented |-> TRUE]
    ELSE [calls |-> <<Invoke("touchOutside", "")>>, prevented |-> FALSE]

toggleOnTouch(e) ==
    IF e.button # ""
    THEN [calls |-> <<Invoke("toggle", e.button)>>, prevented |-> TRUE]
    ELSE IF e.popover = ""
    THEN [calls |-> <<Invoke("touchOutside", "")>>, prevented |-> FALSE]
    ELSE [calls |-> <<>>, prevented |-> FALSE]

dismissOnEscape(e) ==
    IF e.keyCode = 27 \/ e.key = "Escape" \/ e.key = "Esc"
    THEN [calls |-> <<Invoke("dismissAll", "")>>, prevented |-> FALSE]
    ELSE [calls |-> <<>>, prevented |-> FALSE]

hoverHandler(action, e) ==
    [calls |-> IF closestFootnote(e) # ""
               THEN <<Invoke(action, closestFootnote(e))>> ELSE <<>>,
     prevented |-> TRUE]

\* delegate(eventType, SELECTOR_FOOTNOTE, listener)
delegate(action, e) ==
    IF closestFootnote(e) # "" THEN hoverHandler(action, e)
    ELSE [calls |-> <<>>, prevented |-> FALSE]

\* an unthrottled registry function called with the event
Direct(action, e) == [calls |-> <<Invoke(action, "")>>, prevented |-> FALSE]

\* lines 76-78: the throttled function ("reposition" or "resize") that the
\* events of a type feed, "" for the other types
ThrottleOf(type) ==
    CASE type \in {"gestureend", "scroll"} -> "reposition"
      [] type = "resize" -> "resize"
      [] OTHER -> ""

\* lines 65-66: the registry function behind a throttled function
ThrottledAction(f) == IF f = "reposition" THEN "repositionAll" ELSE "resizeAll"

\* a variant that registers the registry function itself for gestureend
ThrottledButGesture(type) == type \in {"scroll", "resize"}

\* lines 76-78: the listener of these types is the throttled function
Throttled(type) == type \in {"gestureend", "scroll", "resize"}

\* lines 73-80: what the function registered for e's type does when called
Listener(e) ==
    CASE e.type \in {"touchend", "click"} -> toggleOnTouch(e)
      [] e.type = "keyup" -> dismissOnEscape(e)
      [] e.type = "mouseover" -> delegate("hover", e)
      [] e.type = "mouseout" -> delegate("unhover", e)
      [] ThrottleOf(e.type) # "" -> Direct(ThrottledAction(ThrottleOf(e.type)), e)
      [] OTHER -> [calls |-> <<>>, prevented |-> FALSE]

\* a variant whose resize listener is registered without the signal
PassesSignalButResize(type) == type # "resize"

\* lines 70-80: every registration is passed the controller's signal
PassesSignal(type) == TRUE

\* a variant with one controller shared by all addListeners calls: a
\* teardown silences every group
ListeningUnlessAnyAborted(g, type) ==
    /\ status[g] = "live"
    /\ \A h \in Groups : status[h] # "aborted"

Listening(g, type) ==
    \/ status[g] = "live"
    \/ status[g] = "aborted" /\ ~PassesSignal(type)

\* what group g's listener does with event e: the registry calls made now
\* and whether the default action is prevented
Heard(g, e) ==
    IF ~Listening(g, e.type) THEN [calls |-> <<>>, prevented |-> FALSE]
    ELSE IF ~Throttled(e.type) THEN Listener(e)
    ELSE IF ThrottleCall(throttles[<<g, ThrottleOf(e.type)>>], e).immediate
    THEN Listener(e)
    ELSE [calls |-> <<>>, prevented |-> FALSE]

Tagged(owner, e, via, cs) ==
    [i \in 1..Len(cs) |->
        [owner |-> owner, action |-> cs[i].action, arg |-> cs[i].arg,
         event |-> <<e>>, via |-> via]]

RECURSIVE HeardByAll(_, _)
HeardByAll(order, e) ==
    IF order = <<>> THEN <<>>
    ELSE Tagged(Head(order), e, "listener", Heard(Head(order), e).calls)
            \o HeardByAll(Tail(order), e)

NoTimerDue == \A h \in Handlers : ~Due(throttles[h])

\* addListeners(useCases): a fresh controller and two fresh throttles
AddListeners(g) ==
    /\ status[g] = "none"
    /\ status' = [status EXCEPT ![g] = "live"]
    /\ calls' = <<>>
    /\ dispatched' = <<>>
    /\ UNCHANGED <<throttles, bursts, scrollBox, fvars>>

\* the function addListeners returned: controller.abort()
Teardown(g) ==
    /\ status[g] # "none"
    /\ status' = [status EXCEPT ![g] = "aborted"]
    /\ calls' = <<>>
    /\ dispatched' = <<>>
    /\ UNCHANGED <<throttles, bursts, scrollBox, fvars>>

\* the browser dispatches e to the document and the window
Dispatch(e) ==
    /\ NoTimerDue
    /\ calls' = HeardByAll(GroupOrder, e)
    /\ dispatched' =
         <<[event |-> e, box |-> scrollBox,
            prevented |-> \E g \in Groups : Heard(g, e).prevented]>>
    /\ throttles' =
         [h \in Handlers |->
            IF /\ Throttled(e.type)
               /\ h[2] = ThrottleOf(e.type)
               /\ h[1] \in Groups
               /\ Listening(h[1], e.type)
            THEN ThrottleCall(throttles[h], e).throttle
            ELSE throttles[h]]
    /\ bursts' =
         [h \in Handlers |->
            IF h[2] = ThrottleOf(e.type) /\ h[1] \in Groups /\ Listening(h[1], e.type)
            THEN BurstArrive(bursts[h], e, Len(Heard(h[1], e).calls))
            ELSE bursts[h]]
    /\ UNCHANGED <<status, scrollBox, fvars>>

----------------------------------------------------------------------------
(* src/src/dom/scroll.ts *)

\* a variant that also sets the class when the wheel step only just reaches
\* the bottom
scrollHandlerReaching(classes, e, box) ==
    LET delta == 0 - e.deltaY
        cleared == IF delta > 0 THEN removeClass(classes, CLASS_FULLY_SCROLLED)
                   ELSE classes
    IN  IF /\ box # <<>>
           /\ delta <= 0
           /\ delta <= box[1].clientHeight + box[1].scrollTop - box[1].scrollHeight
        THEN addClass(cleared, CLASS_FULLY_SCROLLED)
        ELSE cleared

\* scrollHandler(popover)(event): the popover's classes afterwards.  box is
\* <<the content's scroll box>> while the event is being dispatched and <<>>
\* afterwards, when event.currentTarget is null
scrollHandler(classes, e, box) ==
    LET delta == 0 - e.deltaY
        cleared == IF delta > 0 THEN removeClass(classes, CLASS_FULLY_SCROLLED)
                   ELSE classes
    IN  IF /\ box # <<>>
           /\ delta <= 0
           /\ delta < box[1].clientHeight + box[1].scrollTop - box[1].scrollHeight
        THEN addClass(cleared, CLASS_FULLY_SCROLLED)
        ELSE cleared

WheelHandler == <<"content", "wheel">>

ScrollTops == {0, 50, 100}

\* the browser's default action of a wheel event: the content scrolls
Scrolled(box, deltaY) ==
    LET top == box.scrollTop + deltaY
        max == box.scrollHeight - box.clientHeight
    IN  [box EXCEPT !.scrollTop = IF top < 0 THEN 0 ELSE Min(top, max)]

\* a wheel event over the content: the throttled scrollHandler, then the
\* default action
Wheel(e) ==
    /\ NoTimerDue
    /\ LET r == ThrottleCall(throttles[WheelHandler], e)
       IN  /\ throttles' = [throttles EXCEPT ![WheelHandler] = r.throttle]
           /\ popover' =
                IF r.immediate
                THEN [popover EXCEPT !.classes = scrollHandler(@, e, <<scrollBox>>)]
                ELSE popover
           /\ calls' =
                IF r.immediate
                THEN Tagged("content", e, "listener", <<Invoke("scrollHandler", "")>>)
                ELSE <<>>
           /\ bursts' = [bursts EXCEPT ![WheelHandler] =
                            BurstArrive(@, e, IF r.immediate THEN 1 ELSE 0)]
    /\ dispatched' = <<[event |-> e, box |-> scrollBox, prevented |-> FALSE]>>
    /\ scrollBox' = Scrolled(scrollBox, e.deltaY)
    /\ UNCHANGED <<status, button, content, wrapper, host, maxHeight, position,
                   geom, repositioned, observed, lastOp, cycle, history>>

\* the content is scrolled without a wheel event (keyboard, scrollbar)
ScrollTo(top) ==
    /\ NoTimerDue
    /\ top # scrollBox.scrollTop
    /\ scrollBox' = [scrollBox EXCEPT !.scrollTop = top]
    /\ calls' = <<>>
    /\ dispatched' = <<>>
    /\ UNCHANGED <<status, throttles, bursts, fvars>>

----------------------------------------------------------------------------
(* Timers and time *)

\* the timer of throttled function h runs: fn(latest event)
TimerFire(h) ==
    /\ Due(throttles[h])
    /\ LET e == throttles[h].timer[1]
       IN  /\ throttles' = [throttles EXCEPT ![h] = ThrottleFired(@)]
           /\ bursts' = [bursts EXCEPT ![h] = BurstFired(@, e)]
           /\ IF h = WheelHandler
              THEN /\ popover' = [popover EXCEPT !.classes = scrollHandler(@, e, <<>>)]
                   /\ calls' = Tagged("content", e, "timer",
                                      <<Invoke("scrollHandler", "")>>)
              ELSE /\ popover' = popover
                   /\ calls' = Tagged(h[1], e, "timer",
                                      <<Invoke(ThrottledAction(h[2]), "")>>)
    /\ dispatched' = <<>>
    /\ UNCHANGED <<status, scrollBox, button, content, wrapper, host, maxHeight,
                   position, geom, repositioned, observed, lastOp, cycle, history>>

\* TickMs milliseconds pass; a timer that is due runs first
Tick ==
    /\ NoTimerDue
    /\ throttles' = [h \in Handlers |-> ThrottleTick(throttles[h])]
    /\ bursts' = [h \in Handlers |-> BurstTick(bursts[h])]
    /\ calls' = <<>>
    /\ dispatched' = <<>>
    /\ UNCHANGED <<status, scrollBox, fvars>>

InitEvents ==
    /\ status = [g \in Groups |-> "none"]
    /\ throttles = [h \in Handlers |-> Idle]
    /\ bursts = [h \in Handlers |-> NoBurst]
    /\ calls = <<>>
    /\ dispatched = <<>>
    /\ scrollBox = [scrollTop |-> 0, scrollHeight |-> 300, clientHeight |-> 200]

----------------------------------------------------------------------------
(* The footnote lifecycle controller on its own *)

Init == InitFootnote /\ InitEvents

Next == FootnoteCall /\ UNCHANGED evars

Spec == Init /\ [][Next]_vars

----------------------------------------------------------------------------
(* Properties of the footnote lifecycle controller, checked under Spec *)

PopoverCount == Cardinality({i \in 1..Len(host.children) : host.children[i] = "popover"})

PopoverAfterButton == NextSibling(host.children, "button") = "popover"

\* C1: after dismiss() then remove() the popover is outside the document and
\* isReady() is true; while the host is in the document (destroy() was not
\* called), a following activate() puts the one popover node back in the
\* document as the sibling right after the button.
C1_DismissRemoveActivate ==
    /\ cycle = "removed" => ~isMounted /\ isReady
    /\ cycle = "reactivated" /\ host.inDocument =>
           isMounted /\ PopoverAfterButton /\ PopoverCount = 1

C1_Witness ==
    /\ cycle = "reactivated"
    /\ host.inDocument
    /\ isMounted
    /\ InSeq(host.children, "sibling")

\* C2: isActive() is false initially, true after every activate(), false
\* after every dismiss(), and no other call (ready, remove, reposition,
\* resize, isActive, isReady, destroy) changes it.
C2_IsActiveFollowsLastToggle ==
    /\ ~isActive
    /\ [][/\ lastOp' = "activate" => isActive'
          /\ lastOp' = "dismiss" => ~isActive'
          /\ lastOp' \notin {"activate", "dismiss"} => (isActive' <=> isActive)
         ]_vars

C2_Witness == lastOp = "remove" /\ isActive /\ isReady /\ ~isMounted

PlacementClasses(p) == p.classes \cap {"is-above", "is-below"}

\* the room the code leaves for the content at layout g when it decides d
RoomAt(g, d) ==
    LET roomAbove == g.buttonTop + g.buttonOffsetHeight \div 2
    IN  (IF d = "below" THEN g.innerHeight - roomAbove ELSE roomAbove)
            - g.marginTop - 15

\* C9: a reposition() of a mounted popover whose decision equals the stored
\* position leaves the placement classes and transform-origin as they were,
\* and every reposition() of a mounted popover returns the room of the
\* layout it was called with.
C9_UnchangedDecisionWritesNothing ==
    [][lastOp' = "reposition" /\ repositioned' # <<>> =>
          /\ repositioned'[1].room = RoomAt(geom'[1], repositioned'[1].next)
          /\ repositioned'[1].next = position =>
                /\ PlacementClasses(popover') = PlacementClasses(popover)
                /\ popover'.transformOrigin = popover.transformOrigin
      ]_vars

\* an unchanged decision at a layout whose transform-origin and room differ
\* from the ones written and returned before
C9_Witness ==
    /\ lastOp = "reposition"
    /\ repositioned # <<>>
    /\ repositioned[1].current = repositioned[1].next
    /\ popover.transformOrigin # Unset
    /\ popover.transformOrigin[1] # getLeftRelative(geom[1])
    /\ content.maxHeight = Px(repositioned[1].room)

----------------------------------------------------------------------------
(* The placement decision over a wide range of layouts: an activated       *)
(* footnote that is repositioned again and again while the page scrolls,   *)
(* the window resizes and the popover's height changes.                    *)

PlacementLayouts ==
    {Merge(v, Merge(h, o)) :
        v \in [buttonTop : {-30, -10, 10, 30, 50, 70, 90, 110},
               buttonOffsetHeight : {20}, innerHeight : {100, 120},
               marginTop : {0, 5}, popoverOffsetHeight : {20, 40, 60, 80}],
        h \in {hl \in HorizontalLayouts : hl.buttonLeft = 40},
        o \in {ol \in OverflowLayouts : ol.contentScrollHeight = 30}}

\* a fresh footnote after its first activate()
ActivatedFootnote ==
    /\ button = ActivatedButton([ariaExpanded |-> "false", classes |-> {}])
    /\ popover = [classes |-> {}, maxWidth |-> Px(180), transformOrigin |-> Unset,
                  left |-> Unset, tooltipLeft |-> Unset]
    /\ content = [maxHeight |-> Unset, tabindex |-> "absent"]
    /\ wrapper = [maxWidth |-> Unset]
    /\ host = [children |-> ActivatedChildren(<<"button">>), inDocument |-> TRUE]
    /\ maxHeight = 70
    /\ position = "above"
    /\ geom = <<>>
    /\ repositioned = <<>>
    /\ observed = <<>>
    /\ lastOp = "activate"
    /\ cycle = "none"
    /\ history = HistoryAfter(NoHistory, "activate")

InitLayout == ActivatedFootnote /\ InitEvents

NextLayout == (\E g \in PlacementLayouts : Reposition(g)) /\ UNCHANGED evars

SpecLayout == InitLayout /\ [][NextLayout]_vars

\* C8: the decision returned for a layout is 'below' whenever room-below >=
\* required height or room-below >= room-above, and 'above' whenever
\* room-above > room-below and required height > room-below, whatever
\* position was stored before the call.
C8_PlacementDecision ==
    repositioned # <<>> =>
        LET g == geom[1]
            roomAbove == g.buttonTop + g.buttonOffsetHeight \div 2
            roomBelow == g.innerHeight - roomAbove
            required == g.popoverOffsetHeight + 2 * g.marginTop
            decision == repositioned[1].next
        IN  /\ roomBelow >= required => decision = "below"
            /\ roomBelow >= roomAbove => decision = "below"
            /\ roomAbove > roomBelow /\ required > roomBelow => decision = "above"
            /\ decision \in {"above", "below"}

\* a tie between the rooms, too little room below, 'above' stored before
C8_Witness ==
    /\ repositioned # <<>>
    /\ repositioned[1].current = "above"
    /\ repositioned[1].next = "below"
    /\ LET g == geom[1]
           roomAbove == g.buttonTop + g.buttonOffsetHeight \div 2
       IN  /\ g.innerHeight - roomAbove = roomAbove
           /\ g.innerHeight - roomAbove < g.popoverOffsetHeight + 2 * g.marginTop

----------------------------------------------------------------------------
(* The event coordination layer with one addListeners call: listeners are *)
(* added and torn down, the browser dispatches events, time passes and     *)
(* timers run.                                                             *)

InitListeners == ActivatedFootnote /\ InitEvents

NextListeners ==
    \/ AddListeners("g1")
    \/ Teardown("g1")
    \/ \E e \in PointerEvents \cup KeyEvents \cup FrameEvents : Dispatch(e)
    \/ \E h \in Handlers : TimerFire(h)
    \/ Tick

SpecListeners == InitListeners /\ [][NextListeners]_vars

\* the registry calls the last step made for group g
RegistryCalls(g) == SelectSeq(calls, LAMBDA c : c.owner = g)

BoundTypes ==
    {"touchend", "click", "keyup", "gestureend", "scroll", "resize",
     "mouseover", "mouseout"}

\* C3: an event of a bound type dispatched after a group's teardown makes no
\* registry call of that group, and schedules no later call of it either.
C3_NoActionForEventsAfterTeardown ==
    /\ [](\A g \in Groups :
            status[g] = "aborted" /\ dispatched # <<>> => RegistryCalls(g) = <<>>)
    /\ [][\A g \in Groups, f \in {"reposition", "resize"} :
            status[g] = "aborted" =>
                throttles'[<<g, f>>].timer \in {throttles[<<g, f>>].timer, <<>>}
         ]_vars

C3_Witness ==
    /\ status["g1"] = "aborted"
    /\ dispatched # <<>>
    /\ dispatched[1].event.type = "resize"
    /\ throttles[<<"g1", "resize">>] = Idle
    /\ calls = <<>>

\* C4: after a group's teardown no registry action of the group runs any
\* more, a trailing call scheduled before the teardown included.
C4_NoActionAfterTeardown ==
    \A i \in 1..Len(calls) :
        calls[i].owner \in Groups => status[calls[i].owner] = "live"

PressEvent(e) == e.type \in {"click", "touchend"}

\* C6: a click or touchend inside the button of footnote i makes exactly one
\* registry call, toggle(i), for each listening group, and the event's
\* default action is prevented.
C6_ButtonPressTogglesItsFootnote ==
    \A g \in Groups :
        /\ status[g] = "live"
        /\ dispatched # <<>>
        /\ PressEvent(dispatched[1].event)
        /\ dispatched[1].event.button # ""
        => /\ Len(RegistryCalls(g)) = 1
           /\ RegistryCalls(g)[1].action = "toggle"
           /\ RegistryCalls(g)[1].arg = dispatched[1].event.button
           /\ dispatched[1].prevented

C6_Witness ==
    /\ status["g1"] = "live"
    /\ dispatched # <<>>
    /\ dispatched[1].event.type = "touchend"
    /\ dispatched[1].event.button = "2"
    /\ Len(calls) = 1
    /\ calls[1].arg = "2"

TouchOutsideCalls(g) ==
    SelectSeq(RegistryCalls(g), LAMBDA c : c.action = "touchOutside")

\* C7: a click or touchend calls touchOutside() (once) exactly when its
\* target is neither in a button nor in a popover; a target in a popover and
\* in no button makes no registry call at all.
C7_TouchOutsideOnlyOutside ==
    \A g \in Groups :
        /\ status[g] = "live"
        /\ dispatched # <<>>
        /\ PressEvent(dispatched[1].event)
        => LET e == dispatched[1].event
           IN  /\ Len(TouchOutsideCalls(g)) =
                    (IF e.button = "" /\ e.popover = "" THEN 1 ELSE 0)
               /\ e.button = "" /\ e.popover # "" => RegistryCalls(g) = <<>>

C7_Witness ==
    /\ status["g1"] = "live"
    /\ dispatched # <<>>
    /\ dispatched[1].event.type = "click"
    /\ dispatched[1].event.popover = "1"
    /\ calls = <<>>

----------------------------------------------------------------------------
(* The throttled functions under bursts of events.  Timers run when they   *)
(* are due and time passes: the browser's event loop keeps turning.        *)

\* after addListeners(useCases)
InitThrottle ==
    /\ ActivatedFootnote
    /\ status = [g \in Groups |-> IF g = "g1" THEN "live" ELSE "none"]
    /\ throttles = [h \in Handlers |-> Idle]
    /\ bursts = [h \in Handlers |-> NoBurst]
    /\ calls = <<>>
    /\ dispatched = <<>>
    /\ scrollBox = [scrollTop |-> 0, scrollHeight |-> 300, clientHeight |-> 200]

BurstEvents ==
    {e \in FrameEvents : e.type = "resize" \/ e.detail = "a"}

BurstWheelEvents == {e \in WheelEvents : e.deltaY \in {-50, 50}}

NextThrottle ==
    \/ \E e \in BurstEvents : Dispatch(e)
    \/ \E e \in BurstWheelEvents : Wheel(e)
    \/ \E h \in Handlers : TimerFire(h)
    \/ Tick

SpecThrottle ==
    /\ InitThrottle
    /\ [][NextThrottle]_vars
    /\ WF_vars(Tick)
    /\ \A h \in Handlers : WF_vars(TimerFire(h))

----------------------------------------------------------------------------
(* The scroll boundary detector: wheel events over the content of an       *)
(* activated footnote.                                                     *)

InitScroll == ActivatedFootnote /\ InitEvents

NextScroll ==
    \/ \E e \in WheelEvents : Wheel(e)
    \/ \E top \in ScrollTops : ScrollTo(top)
    \/ TimerFire(WheelHandler)
    \/ Tick

SpecScroll == InitScroll /\ [][NextScroll]_vars

FullyScrolled(p) == hasClass(p.classes, CLASS_FULLY_SCROLLED)

\* the distance from the scroll position to the bottom
Remaining(box) == box.scrollHeight - box.clientHeight - box.scrollTop

\* C10 as stated: the class gets set only by a downward wheel event that
\* finds the content at the bottom (scrollTop + clientHeight >= scrollHeight).
C10_SetOnlyAtBottom ==
    [][~FullyScrolled(popover) /\ FullyScrolled(popover') =>
          /\ dispatched' # <<>>
          /\ dispatched'[1].event.deltaY > 0
          /\ scrollBox.scrollTop + scrollBox.clientHeight >= scrollBox.scrollHeight
      ]_vars

\* C10 as amended: the class gets set only while a downward wheel event is
\* handled during its dispatch, and only when its deltaY exceeds the distance
\* left to the bottom at that time; a downward wheel event whose deltaY
\* does not exceed that distance leaves the class as it was.
C10_SetOnlyWhenStepPassesBottom ==
    /\ [][~FullyScrolled(popover) /\ FullyScrolled(popover') =>
            /\ dispatched' # <<>>
            /\ calls' # <<>>
            /\ calls'[1].via = "listener"
            /\ dispatched'[1].event.deltaY > 0
            /\ dispatched'[1].event.deltaY > Remaining(scrollBox)
         ]_vars
    /\ [][/\ dispatched' # <<>>
          /\ dispatched'[1].event.type = "wheel"
          /\ dispatched'[1].event.deltaY >= 0
          /\ dispatched'[1].event.deltaY <= Remaining(dispatched'[1].box)
          => (FullyScrolled(popover') <=> FullyScrolled(popover))
         ]_vars

\* the class set by a wheel step of 150 with 100 left to the bottom
C10_Witness ==
    /\ FullyScrolled(popover)
    /\ dispatched # <<>>
    /\ dispatched[1].event.deltaY = 150
    /\ Remaining(dispatched[1].box) = 100
    /\ calls # <<>>

\* C11: once the class is set, every upward wheel event (deltaY < 0) over
\* the content clears it in the step that dispatches the event, whatever the
\* scroll position and whatever other wheel events arrive around it.
C11_UpwardWheelClearsAtOnce ==
    [][/\ FullyScrolled(popover)
       /\ dispatched' # <<>>
       /\ dispatched'[1].event.type = "wheel"
       /\ dispatched'[1].event.deltaY < 0
       => ~FullyScrolled(popover')
      ]_vars

----------------------------------------------------------------------------
(* Further properties of one footnote under Spec. *)

\* C12: in every reachable state the button's aria-expanded is 'true'
\* exactly when the button carries the active marker (isActive() is true),
\* and 'false' otherwise: initially and after dismiss(), remove(), ready().
C12_AriaExpandedFollowsActive ==
    button.ariaExpanded = IF hasClass(button.classes, CLASS_ACTIVE)
                          THEN "true" ELSE "false"

\* an activated footnote dismissed and then removed: expanded went to
\* 'true' and is 'false' again
C12_Witness ==
    /\ cycle = "removed"
    /\ lastOp = "remove"
    /\ button.ariaExpanded = "false"
    /\ popover.maxWidth # Unset

\* the popover is an element of the document
PopoverAttached == host.inDocument /\ InSeq(host.children, "popover")

\* C13: reposition() and resize() called while the popover is not attached
\* to the document change nothing: stored position, cached maxHeight, the
\* popover's classes and styles, the content's max-height and tabindex and
\* the wrapper's max-width stay as they were.
C13_DetachedCallsChangeNothing ==
    [][lastOp' \in {"reposition", "resize"} /\ ~PopoverAttached =>
          UNCHANGED <<position, maxHeight, popover, content, wrapper>>
      ]_vars

\* a stale reposition() after destroy(), for a popover that was placed
\* below and is still under its host
C13_Witness ==
    /\ lastOp = "reposition"
    /\ ~host.inDocument
    /\ InSeq(host.children, "popover")
    /\ position = "below"
    /\ geom # <<>>

\* the content's keyboard and scroll affordance agrees with layout g
AffordanceFollows(g) ==
    IF g.contentScrollHeight > g.renderedHeight
    THEN content.tabindex = "0" /\ hasClass(popover.classes, CLASS_SCROLLABLE)
    ELSE content.tabindex = "absent" /\ ~hasClass(popover.classes, CLASS_SCROLLABLE)

\* C14: after every reposition() or resize() executed while the popover is
\* attached, the content has tabindex '0' and the popover the scrollable
\* class exactly when the content's scroll height exceeds the popover's
\* rendered height; otherwise neither.
C14_AffordanceAfterRepositionOrResize ==
    lastOp \in {"reposition", "resize"} /\ PopoverAttached /\ geom # <<>>
        => AffordanceFollows(geom[1])

\* the part of C14 that is about reposition() alone
AffordanceAfterReposition ==
    lastOp = "reposition" /\ PopoverAttached /\ geom # <<>>
        => AffordanceFollows(geom[1])

----------------------------------------------------------------------------
(* Several addListeners calls: each call makes a group of listeners with  *)
(* its own controller and its own throttles.                               *)

GroupEvents ==
    {Event("click", "1", "", "", 0, "", 0),
     Event("click", "", "", "", 0, "", 0),
     Event("keyup", "", "", "Escape", 27, "", 0),
     Event("resize", "", "", "", 0, "a", 0)}

NextGroups ==
    \/ \E g \in Groups : AddListeners(g)
    \/ \E g \in Groups : Teardown(g)
    \/ \E e \in GroupEvents : Dispatch(e)
    \/ \E h \in Handlers : TimerFire(h)
    \/ Tick

SpecGroups == InitListeners /\ [][NextGroups]_vars

\* an event that makes a listener call the registry whenever it is heard
Acting(e) ==
    \/ PressEvent(e) /\ (e.button # "" \/ e.popover = "")
    \/ e.type = "keyup" /\ e.key = "Escape"

\* C15: each addListeners call makes an independent group.  An event makes
\* one registry call per group that is set up and not torn down, whatever
\* the other groups' state (so after setup, teardown, setup exactly one call,
\* by the fresh group); a throttled event is handled at once by each such
\* group whose own throttle is idle; a teardown changes one group's state
\* only, and a torn down group stays torn down when its teardown runs again.
C15_GroupsAreIndependent ==
    /\ [](\A g \in Groups :
            dispatched # <<>> /\ Acting(dispatched[1].event) =>
                Len(RegistryCalls(g)) = IF status[g] = "live" THEN 1 ELSE 0)
    /\ [][\A g \in Groups :
            dispatched' # <<>> /\ dispatched'[1].event.type = "resize" =>
                Len(SelectSeq(calls', LAMBDA c : c.owner = g)) =
                    IF status[g] = "live" /\ throttles[<<g, "resize">>].wait = 0
                    THEN 1 ELSE 0
         ]_vars
    /\ [][/\ Cardinality({g \in Groups : status'[g] # status[g]}) <= 1
          /\ status' # status => throttles' = throttles /\ fvars' = fvars
          /\ \A g \in Groups : status[g] = "aborted" => status'[g] = "aborted"
         ]_vars

\* setup, teardown, setup, then a click on the button of footnote 1: one
\* toggle, by the second group
C15_Witness ==
    /\ status["g1"] = "aborted"
    /\ status["g2"] = "live"
    /\ dispatched # <<>>
    /\ dispatched[1].event.type = "click"
    /\ dispatched[1].event.button = "1"
    /\ Len(calls) = 1
    /\ calls[1].owner = "g2"
    /\ calls[1].action = "toggle"

\* C16: the popover is attached to the document exactly when activate() has
\* been called with no remove() since and destroy() has never been called;
\* whenever attached it is the element right after its button; and once
\* destroy() has been called the popover is never attached again.
C16_AttachedIffActivatedAndNotDestroyed ==
    /\ [](PopoverAttached <=> history.activated /\ ~history.destroyed)
    /\ [](PopoverAttached => PopoverAfterButton /\ PopoverCount = 1)
    /\ [](lastOp = "destroy" => [](~PopoverAttached))

\* activate() called after destroy(): the popover is under the removed host
C16_Witness ==
    /\ lastOp = "activate"
    /\ history.destroyed
    /\ history.activated
    /\ InSeq(host.children, "popover")
    /\ ~PopoverAttached

\* C17: the callback passed to activate() or dismiss() runs at most once per
\* call, as its last step: what it sees is the footnote as the call leaves
\* it.  The activate callback sees the popover right after the button (in
\* the document unless destroy() was called), aria-expanded 'true',
\* isActive() true and isReady() false; the dismiss callback sees isActive()
\* false and isReady() false, and dismiss() leaves the popover where it was.
\* No other operation invokes a callback.
C17_CallbackRunsLast ==
    /\ [](/\ Len(observed) <= 1
          /\ observed # <<>> =>
                /\ lastOp \in {"activate", "dismiss"}
                /\ observed[1] = Seen(button, popover, host))
    /\ [](observed # <<>> /\ lastOp = "activate" =>
            /\ observed[1].afterButton
            /\ observed[1].mounted <=> ~history.destroyed
            /\ observed[1].expanded = "true"
            /\ observed[1].active
            /\ ~observed[1].ready)
    /\ [](observed # <<>> /\ lastOp = "dismiss" =>
            /\ ~observed[1].active
            /\ ~observed[1].ready)
    /\ [][lastOp' = "dismiss" =>
            /\ host' = host
            /\ observed' # <<>> => observed'[1].mounted = PopoverAttached
         ]_vars

\* the callback of a repeated activate() of an attached, settled footnote
C17_Witness ==
    /\ lastOp = "activate"
    /\ observed # <<>>
    /\ observed[1].mounted
    /\ observed[1].afterButton
    /\ ~observed[1].ready
    /\ observed[1].popoverActive

\* C18: isReady() is false from an activate() or dismiss() call until the
\* next ready() or remove() call and true in every other state; reposition(),
\* resize(), isActive() and isReady() never change it.
C18_ReadyUnlessChanging ==
    /\ [](isReady <=> history.settled)
    /\ [][lastOp' \in {"reposition", "resize", "isActive", "isReady"} =>
            (~hasClass(button.classes, CLASS_CHANGING))' =
                ~hasClass(button.classes, CLASS_CHANGING)
         ]_vars

\* a dismissed footnote made ready by remove(), then asked isReady()
C18_Witness ==
    /\ lastOp = "isReady"
    /\ history.settled
    /\ ~history.activated
    /\ ~hasClass(button.classes, CLASS_ACTIVE)
    /\ ~hasClass(button.classes, CLASS_CHANGING)
    /\ popover.maxWidth # Unset

\* C19: the maxHeight cached by every activate() of a footnote in the
\* document is the content's natural (stylesheet) max-height, never a
\* clipped height written by an earlier reposition().
C19_CachedMaxHeightIsNatural ==
    lastOp = "activate" /\ host.inDocument /\ geom # <<>>
        => maxHeight = geom[1].cssMaxHeight

\* C20: the popover carries the active marker only if the button does.
C20_PopoverActiveOnlyIfButtonActive ==
    hasClass(popover.classes, CLASS_ACTIVE) => hasClass(button.classes, CLASS_ACTIVE)

\* C21: the popover never carries both placement classes, and after every
\* reposition() of an attached popover it carries exactly the class of the
\* decision just computed, which is the position stored for the next call:
\* the first reposition(), with the stored position still the default
\* 'above', included.
C21_PlacementClassFollowsDecision ==
    /\ Cardinality(PlacementClasses(popover)) <= 1
    /\ lastOp = "reposition" /\ repositioned # <<>> =>
            /\ position = repositioned[1].next
            /\ PlacementClasses(popover) = {PlacementClass(repositioned[1].next)}

\* the parts of C21 that do not depend on the first decision: never both
\* classes, the stored position is the last decision, and the class of the
\* other placement is never carried after a reposition()
PlacementClassNeverStale ==
    /\ Cardinality(PlacementClasses(popover)) <= 1
    /\ lastOp = "reposition" /\ repositioned # <<>> =>
            /\ position = repositioned[1].next
            /\ PlacementClasses(popover) \subseteq
                    {PlacementClass(repositioned[1].next)}

====
